---- MODULE Spec2Model ----
(***************************************************************************)
(* Model of pyinit/cli.py: the `cli` command that scaffolds a new Python   *)
(* project.  One run of `cli` is a straight line of steps: the existence   *)
(* check, creation of the root, creation of the sub-directories, one       *)
(* render-and-write per template, `poetry init`, the CI note, the venv     *)
(* commands, the git commands and the final message.  Every filesystem     *)
(* call and every subprocess is given an outcome by the environment.       *)
(*                                                                         *)
(* Paths are sequences of components relative to project_dir, so that      *)
(* project_dir itself is <<>> and os.path.join is concatenation.           *)
(***************************************************************************)
EXTENDS Integers, Sequences, FiniteSets, TLC

VARIABLES
    cfg,        \* the options of the current invocation: venv, git, ci, interactive
    pc,         \* the statement of cli() the run is at
    i,          \* index of the current iteration of the loop the run is in
    dirs,       \* directories that exist at or below project_dir
    files,      \* regular files that exist at or below project_dir
    written,    \* output files this run has finished writing, in order
    invoked,    \* subprocesses this run has attempted, in order, with their result
    output,     \* the messages echoed by this run, in order
    exit_code,  \* -1 while the run is in progress, then the exit status
    raised,     \* "none", or the exception that ended the run
    run,        \* number of the current invocation
    dirs0,      \* directories that existed when the current invocation started
    files0,     \* files that existed when the current invocation started
    twin        \* a second run of cli with the ci option negated (SpecTwin only)

vars == <<cfg, pc, i, dirs, files, written, invoked, output, exit_code, raised,
          run, dirs0, files0, twin>>

\* Number of consecutive invocations explored.
MaxRuns == 2

(***************************************************************************)
(* Paths                                                                   *)
(***************************************************************************)
project_name == "demo"

project_dir == <<>>

join(a, b) == a \o b

dirname(p) == IF p = <<>> THEN <<>> ELSE SubSeq(p, 1, Len(p) - 1)

exists(d, p) == p \in d.dirs \/ p \in d.files

isdir(d, p) == p \in d.dirs

\* os.mkdir: one directory; the parent must be a directory; o is the
\* outcome the operating system gives when the call is otherwise valid.
mkdir(d, name, o) ==
    IF exists(d, name) THEN [d |-> d, err |-> "FileExistsError"]
    ELSE IF name # <<>> /\ ~isdir(d, dirname(name))
         THEN [d |-> d, err |-> "NotADirectoryError"]
    ELSE IF o # "ok" THEN [d |-> d, err |-> "OSError"]
    ELSE [d |-> [d EXCEPT !.dirs = @ \cup {name}], err |-> "none"]

\* os.makedirs(name, exist_ok=...): creates the missing ancestors first,
\* then the leaf; an error on the leaf is swallowed when exist_ok is set
\* and the leaf is a directory.  Outcome "oserror" makes the first mkdir
\* that is attempted fail, "oserror_late" makes the mkdir of the leaf fail.
RECURSIVE makedirs(_, _, _, _)
makedirs(d, name, exist_ok, o) ==
    LET head == dirname(name)
        up == IF name # <<>> /\ ~exists(d, head)
              THEN makedirs(d, head, exist_ok, IF o = "oserror" THEN o ELSE "ok")
              ELSE [d |-> d, err |-> "none"]
        leaf == mkdir(up.d, name, o)
    IN  IF up.err \notin {"none", "FileExistsError"} THEN up
        ELSE IF leaf.err # "none" /\ exist_ok /\ isdir(up.d, name)
             THEN [d |-> up.d, err |-> "none"]
        ELSE leaf

(***************************************************************************)
(* Static data of cli()                                                    *)
(***************************************************************************)
Flags == [venv : BOOLEAN, git : BOOLEAN, ci : BOOLEAN, interactive : BOOLEAN]

\* Variant of templates: the dependabot entry is missing from the dictionary.
templatesM == <<
    [template_file |-> "README.md.j2",        output_file |-> <<"README.md">>],
    [template_file |-> ".gitignore.j2",       output_file |-> <<".gitignore">>],
    [template_file |-> "Makefile.j2",         output_file |-> <<"Makefile">>],
    [template_file |-> "LICENSE.j2",          output_file |-> <<"LICENSE">>],
    [template_file |-> "requirements.txt.j2", output_file |-> <<"requirements.txt">>],
    [template_file |-> "test_project.py.j2",  output_file |-> join(<<"tests">>, <<"test_demo.py">>)],
    [template_file |-> "src_init.py.j2",      output_file |-> join(<<"src", project_name>>, <<"__init__.py">>)],
    [template_file |-> "ci.yml.j2",           output_file |-> join(<<".github", "workflows">>, <<"ci.yml">>)] >>

\* The templates dictionary, in insertion order: template name, output path.
templates == <<
    [template_file |-> "README.md.j2",        output_file |-> <<"README.md">>],
    [template_file |-> ".gitignore.j2",       output_file |-> <<".gitignore">>],
    [template_file |-> "Makefile.j2",         output_file |-> <<"Makefile">>],
    [template_file |-> "LICENSE.j2",          output_file |-> <<"LICENSE">>],
    [template_file |-> "requirements.txt.j2", output_file |-> <<"requirements.txt">>],
    [template_file |-> "test_project.py.j2",  output_file |-> join(<<"tests">>, <<"test_demo.py">>)],
    [template_file |-> "src_init.py.j2",      output_file |-> join(<<"src", project_name>>, <<"__init__.py">>)],
    [template_file |-> "ci.yml.j2",           output_file |-> join(<<".github", "workflows">>, <<"ci.yml">>)],
    [template_file |-> "dependabot.yml.j2",   output_file |-> join(<<".github">>, <<"dependabot.yml">>)] >>

\* Variant of subdirs: the tests directory is left to the template loop.
subdirsM == <<
    join(project_dir, <<"src", project_name>>),
    join(project_dir, <<".github", "workflows">>) >>

subdirs == <<
    join(project_dir, <<"src", project_name>>),
    join(project_dir, <<"tests">>),
    join(project_dir, <<".github", "workflows">>) >>

poetry_init_cmd(c) ==
    IF ~c.interactive THEN <<"poetry", "init", "--no-interaction">>
    ELSE <<"poetry", "init">>

venv_path == join(project_dir, <<"venv">>)

venv_cmd == <<"python", "-m", "venv", "venv">>

pip_upgrade_cmd == <<"venv/bin/pip", "install", "--upgrade", "pip">>

pip_install_cmd == <<"venv/bin/pip", "install", "-r", "requirements.txt">>

git_init_cmd == <<"git", "init">>

git_add_cmd == <<"git", "add", ".">>

git_commit_cmd == <<"git", "commit", "-m", "Initial commit">>

(***************************************************************************)
(* The state of one run, as a record, and the steps of cli() on it.  Each  *)
(* step takes the run's state m, the options c and the outcome o that the  *)
(* environment gives to the call made in that step.                        *)
(***************************************************************************)
NewRun(d, f) ==
    [pc |-> "check", i |-> 0, dirs |-> d, files |-> f, written |-> <<>>,
     invoked |-> <<>>, output |-> <<>>, exit_code |-> -1, raised |-> "none"]

disk(m) == [dirs |-> m.dirs, files |-> m.files]

echo(m, msg) == [m EXCEPT !.output = Append(@, msg)]

\* An exception nobody catches, or typer.Exit(code=1): the run ends, status 1.
abort(m, exc) == [m EXCEPT !.raised = exc, !.exit_code = 1]

\* What an external tool leaves on disk when it ran to completion.
tool_effect(m, cmd) ==
    IF cmd[1] = "poetry" THEN [m EXCEPT !.files = @ \cup {<<"pyproject.toml">>}]
    ELSE IF cmd = venv_cmd THEN [m EXCEPT !.dirs = @ \cup {venv_path}]
    ELSE IF cmd = git_init_cmd THEN [m EXCEPT !.dirs = @ \cup {<<".git">>}]
    ELSE m

\* subprocess.run(cmd, check=True).  Outcomes: "ok" exit status 0; "nonzero"
\* non-zero status with nothing left behind; "nonzero_partial" non-zero
\* status after the tool did its work on disk; "oserror" the executable
\* could not be started.  The result is the state and the exception raised.
subprocess_run(m, cmd, o) ==
    LET logged == [m EXCEPT !.invoked = Append(@, [cmd |-> cmd, result |-> o])]
    IN  IF o = "ok" THEN [m |-> tool_effect(logged, cmd), err |-> "none"]
        ELSE IF o = "nonzero" THEN [m |-> logged, err |-> "CalledProcessError"]
        ELSE IF o = "nonzero_partial"
             THEN [m |-> tool_effect(logged, cmd), err |-> "CalledProcessError"]
        ELSE [m |-> logged, err |-> "FileNotFoundError"]

\* Variant of check_exists: the existence check is missing.
check_existsM(m, c, o) == [m EXCEPT !.pc = "mkroot"]

\* if os.path.exists(project_dir): echo; raise typer.Exit(code=1)
check_exists(m, c, o) ==
    IF exists(disk(m), project_dir)
    THEN abort(echo(m, "Error: already exists"), "Exit")
    ELSE [m EXCEPT !.pc = "mkroot"]

\* os.makedirs(project_dir); echo
make_root(m, c, o) ==
    LET r == makedirs(disk(m), project_dir, FALSE, o)
        n == [m EXCEPT !.dirs = r.d.dirs]
    IN  IF r.err # "none" THEN abort(n, r.err)
        ELSE [echo(n, "Created project directory") EXCEPT !.pc = "subdirs", !.i = 1]

\* for subdir in subdirs: os.makedirs(subdir, exist_ok=True); echo
make_subdir(m, c, o) ==
    LET r == makedirs(disk(m), subdirs[m.i], TRUE, o)
        n == [m EXCEPT !.dirs = r.d.dirs]
    IN  IF r.err # "none" THEN abort(n, r.err)
        ELSE IF m.i < Len(subdirs)
             THEN [echo(n, "Created directory") EXCEPT !.i = m.i + 1]
        ELSE [echo(n, "Created directory") EXCEPT !.pc = "render", !.i = 1]

\* Variant of render_and_write: a template that fails to render is skipped
\* and the loop carries on with the next one.
render_and_writeM(m, c, o) ==
    LET output_path == join(project_dir, templates[m.i].output_file)
        r == makedirs(disk(m), dirname(output_path), TRUE, "ok")
        n == [m EXCEPT !.dirs = r.d.dirs]
        opened == [n EXCEPT !.files = @ \cup {output_path}]
        done == IF o = "render_error" THEN m
                ELSE echo([opened EXCEPT !.written = Append(@, output_path)], "Created file")
    IN  IF o # "render_error" /\ r.err # "none" THEN abort(n, r.err)
        ELSE IF o = "open_error" \/ isdir(disk(n), output_path) THEN abort(n, "OSError")
        ELSE IF o = "write_error" THEN abort(opened, "OSError")
        ELSE IF m.i < Len(templates) THEN [done EXCEPT !.i = m.i + 1]
        ELSE [done EXCEPT !.pc = "poetry", !.i = 0]

\* One iteration of the template loop: render_template, makedirs of the
\* parent, open(..., 'w'), write, echo.  Outcomes: "render_error" the
\* template is missing or does not render; "open_error" the file cannot be
\* opened; "write_error" the file was created but writing it failed.
render_and_write(m, c, o) ==
    LET output_path == join(project_dir, templates[m.i].output_file)
        r == makedirs(disk(m), dirname(output_path), TRUE, "ok")
        n == [m EXCEPT !.dirs = r.d.dirs]
        opened == [n EXCEPT !.files = @ \cup {output_path}]
        done == echo([opened EXCEPT !.written = Append(@, output_path)], "Created file")
    IN  IF o = "render_error" THEN abort(m, "TemplateError")
        ELSE IF r.err # "none" THEN abort(n, r.err)
        ELSE IF o = "open_error" \/ isdir(disk(n), output_path) THEN abort(n, "OSError")
        ELSE IF o = "write_error" THEN abort(opened, "OSError")
        ELSE IF m.i < Len(templates) THEN [done EXCEPT !.i = m.i + 1]
        ELSE [done EXCEPT !.pc = "poetry", !.i = 0]

\* Variant of poetry_init: the handler echoes the error but does not exit.
poetry_initM(m, c, o) ==
    LET r == subprocess_run(echo(m, "Initializing Poetry..."), poetry_init_cmd(c), o)
    IN  IF r.err = "none"
        THEN [echo(r.m, "Poetry initialization completed.") EXCEPT !.pc = "ci"]
        ELSE IF r.err = "CalledProcessError"
             THEN [echo(r.m, "Error during Poetry initialization") EXCEPT !.pc = "ci"]
        ELSE abort(r.m, r.err)

\* echo; try: subprocess.run(poetry_init_cmd, check=True); echo
\* except CalledProcessError: echo; raise typer.Exit(code=1)
poetry_init(m, c, o) ==
    LET r == subprocess_run(echo(m, "Initializing Poetry..."), poetry_init_cmd(c), o)
    IN  IF r.err = "none"
        THEN [echo(r.m, "Poetry initialization completed.") EXCEPT !.pc = "ci"]
        ELSE IF r.err = "CalledProcessError"
             THEN abort(echo(r.m, "Error during Poetry initialization"), "Exit")
        ELSE abort(r.m, r.err)

\* Variant of ci_setup: without the flag the CI files are taken away again.
ci_setupM(m, c, o) ==
    IF c.ci
    THEN [echo(m, "CI/CD configurations already set up via templates.") EXCEPT !.pc = "venv"]
    ELSE [m EXCEPT !.pc = "venv",
                   !.files = @ \ {<<".github", "workflows", "ci.yml">>,
                                  <<".github", "dependabot.yml">>}]

\* if ci: echo
ci_setup(m, c, o) ==
    IF c.ci
    THEN [echo(m, "CI/CD configurations already set up via templates.") EXCEPT !.pc = "venv"]
    ELSE [m EXCEPT !.pc = "venv"]

\* Variant of venv_create: the environment is created whatever the flag.
venv_createM(m, c, o) ==
    LET r == subprocess_run(echo(m, "Creating virtual environment..."), venv_cmd, o)
    IN  IF r.err = "none"
        THEN [echo(r.m, "Created virtual environment") EXCEPT !.pc = "pip_upgrade"]
        ELSE abort(r.m, r.err)

\* if venv: echo; subprocess.run([python, '-m', 'venv', venv_path], check=True); echo
venv_create(m, c, o) ==
    IF ~c.venv THEN [m EXCEPT !.pc = "git_init"]
    ELSE LET r == subprocess_run(echo(m, "Creating virtual environment..."), venv_cmd, o)
         IN  IF r.err = "none"
             THEN [echo(r.m, "Created virtual environment") EXCEPT !.pc = "pip_upgrade"]
             ELSE abort(r.m, r.err)

\* subprocess.run([pip_executable, 'install', '--upgrade', 'pip'], check=True)
pip_upgrade(m, c, o) ==
    LET r == subprocess_run(m, pip_upgrade_cmd, o)
    IN  IF r.err = "none" THEN [r.m EXCEPT !.pc = "pip_install"]
        ELSE abort(r.m, r.err)

\* Variant of pip_install: the command is run without check=True.
pip_installM(m, c, o) ==
    LET r == subprocess_run(m, pip_install_cmd, o)
    IN  IF r.err \in {"none", "CalledProcessError"}
        THEN [echo(r.m, "Installed project dependencies.") EXCEPT !.pc = "git_init"]
        ELSE abort(r.m, r.err)

\* subprocess.run([pip_executable, 'install', '-r', requirements], check=True); echo
pip_install(m, c, o) ==
    LET r == subprocess_run(m, pip_install_cmd, o)
    IN  IF r.err = "none"
        THEN [echo(r.m, "Installed project dependencies.") EXCEPT !.pc = "git_init"]
        ELSE abort(r.m, r.err)

\* The handler of the try block around the git commands:
\* except subprocess.CalledProcessError: echo, and carry on.
git_except(r, next) ==
    IF r.err = "none" THEN [r.m EXCEPT !.pc = next]
    ELSE IF r.err = "CalledProcessError"
         THEN [echo(r.m, "Git initialization failed") EXCEPT !.pc = "finish"]
    ELSE abort(r.m, r.err)

\* Variant of git_init: the repository is initialized whatever the flag.
git_initM(m, c, o) == git_except(subprocess_run(m, git_init_cmd, o), "git_add")

\* if git: try: subprocess.run(['git', 'init'], check=True)
git_init(m, c, o) ==
    IF ~c.git THEN [m EXCEPT !.pc = "finish"]
    ELSE git_except(subprocess_run(m, git_init_cmd, o), "git_add")

\* subprocess.run(['git', 'add', '.'], check=True)
git_add(m, c, o) == git_except(subprocess_run(m, git_add_cmd, o), "git_commit")

\* subprocess.run(['git', 'commit', '-m', 'Initial commit'], check=True); echo
git_commit(m, c, o) ==
    LET r == subprocess_run(m, git_commit_cmd, o)
    IN  IF r.err = "none"
        THEN [echo(r.m, "Initialized Git repository") EXCEPT !.pc = "finish"]
        ELSE git_except(r, "finish")

\* typer.echo("Project ... has been successfully initialized!"); return
finish(m, c, o) ==
    [echo(m, "successfully initialized") EXCEPT !.pc = "done", !.exit_code = 0]

\* The outcomes the environment can give to the call made at each statement.
OutcomesAt(p) ==
    IF p \in {"mkroot", "subdirs"} THEN {"ok", "oserror", "oserror_late"}
    ELSE IF p = "render" THEN {"ok", "render_error", "open_error", "write_error"}
    ELSE IF p \in {"poetry", "venv", "pip_upgrade", "pip_install",
                   "git_init", "git_add", "git_commit"}
         THEN {"ok", "nonzero", "nonzero_partial", "oserror"}
    ELSE {"ok"}

\* cli() from wherever the run is: the step at m.pc; a run that has
\* exited does nothing more.
cli(m, c, o) ==
    CASE m.exit_code # -1     -> m
      [] m.pc = "check"       -> check_exists(m, c, o)
      [] m.pc = "mkroot"      -> make_root(m, c, o)
      [] m.pc = "subdirs"     -> make_subdir(m, c, o)
      [] m.pc = "render"      -> render_and_write(m, c, o)
      [] m.pc = "poetry"      -> poetry_init(m, c, o)
      [] m.pc = "ci"          -> ci_setup(m, c, o)
      [] m.pc = "venv"        -> venv_create(m, c, o)
      [] m.pc = "pip_upgrade" -> pip_upgrade(m, c, o)
      [] m.pc = "pip_install" -> pip_install(m, c, o)
      [] m.pc = "git_init"    -> git_init(m, c, o)
      [] m.pc = "git_add"     -> git_add(m, c, o)
      [] m.pc = "git_commit"  -> git_commit(m, c, o)
      [] m.pc = "finish"      -> finish(m, c, o)
      [] OTHER                -> m

(***************************************************************************)
(* The state machine                                                       *)
(***************************************************************************)
Cur ==
    [pc |-> pc, i |-> i, dirs |-> dirs, files |-> files, written |-> written,
     invoked |-> invoked, output |-> output, exit_code |-> exit_code,
     raised |-> raised]

Become(n) ==
    /\ pc' = n.pc
    /\ i' = n.i
    /\ dirs' = n.dirs
    /\ files' = n.files
    /\ written' = n.written
    /\ invoked' = n.invoked
    /\ output' = n.output
    /\ exit_code' = n.exit_code
    /\ raised' = n.raised

Running == exit_code = -1

\* The destination before the first invocation: absent, an existing
\* directory, or an existing regular file.
InitialDisks ==
    { [dirs |-> {}, files |-> {}],
      [dirs |-> {project_dir}, files |-> {}],
      [dirs |-> {}, files |-> {project_dir}] }

Init ==
    /\ cfg \in Flags
    /\ run = 1
    /\ \E d \in InitialDisks :
          /\ dirs = d.dirs
          /\ files = d.files
          /\ dirs0 = d.dirs
          /\ files0 = d.files
          /\ twin = NewRun(d.dirs, d.files)
    /\ pc = "check"
    /\ i = 0
    /\ written = <<>>
    /\ invoked = <<>>
    /\ output = <<>>
    /\ exit_code = -1
    /\ raised = "none"

\* if os.path.exists(project_dir)
CheckExists ==
    /\ Running
    /\ pc = "check"
    /\ \E o \in OutcomesAt(pc) : Become(check_exists(Cur, cfg, o))
    /\ UNCHANGED <<cfg, run, dirs0, files0, twin>>

\* os.makedirs(project_dir)
MakeRoot ==
    /\ Running
    /\ pc = "mkroot"
    /\ \E o \in OutcomesAt(pc) : Become(make_root(Cur, cfg, o))
    /\ UNCHANGED <<cfg, run, dirs0, files0, twin>>

\* one iteration of: for subdir in subdirs
MakeSubdir ==
    /\ Running
    /\ pc = "subdirs"
    /\ \E o \in OutcomesAt(pc) : Become(make_subdir(Cur, cfg, o))
    /\ UNCHANGED <<cfg, run, dirs0, files0, twin>>

\* one iteration of: for template_file, output_file in templates.items()
RenderAndWrite ==
    /\ Running
    /\ pc = "render"
    /\ \E o \in OutcomesAt(pc) : Become(render_and_write(Cur, cfg, o))
    /\ UNCHANGED <<cfg, run, dirs0, files0, twin>>

\* subprocess.run(poetry_init_cmd, cwd=project_dir, check=True)
PoetryInit ==
    /\ Running
    /\ pc = "poetry"
    /\ \E o \in OutcomesAt(pc) : Become(poetry_init(Cur, cfg, o))
    /\ UNCHANGED <<cfg, run, dirs0, files0, twin>>

\* if ci
CiSetup ==
    /\ Running
    /\ pc = "ci"
    /\ \E o \in OutcomesAt(pc) : Become(ci_setup(Cur, cfg, o))
    /\ UNCHANGED <<cfg, run, dirs0, files0, twin>>

\* if venv: python -m venv
VenvCreate ==
    /\ Running
    /\ pc = "venv"
    /\ \E o \in OutcomesAt(pc) : Become(venv_create(Cur, cfg, o))
    /\ UNCHANGED <<cfg, run, dirs0, files0, twin>>

\* pip install --upgrade pip
PipUpgrade ==
    /\ Running
    /\ pc = "pip_upgrade"
    /\ \E o \in OutcomesAt(pc) : Become(pip_upgrade(Cur, cfg, o))
    /\ UNCHANGED <<cfg, run, dirs0, files0, twin>>

\* pip install -r requirements.txt
PipInstall ==
    /\ Running
    /\ pc = "pip_install"
    /\ \E o \in OutcomesAt(pc) : Become(pip_install(Cur, cfg, o))
    /\ UNCHANGED <<cfg, run, dirs0, files0, twin>>

\* if git: git init
GitInit ==
    /\ Running
    /\ pc = "git_init"
    /\ \E o \in OutcomesAt(pc) : Become(git_init(Cur, cfg, o))
    /\ UNCHANGED <<cfg, run, dirs0, files0, twin>>

\* git add .
GitAdd ==
    /\ Running
    /\ pc = "git_add"
    /\ \E o \in OutcomesAt(pc) : Become(git_add(Cur, cfg, o))
    /\ UNCHANGED <<cfg, run, dirs0, files0, twin>>

\* git commit -m 'Initial commit'
GitCommit ==
    /\ Running
    /\ pc = "git_commit"
    /\ \E o \in OutcomesAt(pc) : Become(git_commit(Cur, cfg, o))
    /\ UNCHANGED <<cfg, run, dirs0, files0, twin>>

\* the closing message and the return of cli()
Finish ==
    /\ Running
    /\ pc = "finish"
    /\ \E o \in OutcomesAt(pc) : Become(finish(Cur, cfg, o))
    /\ UNCHANGED <<cfg, run, dirs0, files0, twin>>

\* The command is invoked again, with any options, on the disk as it is.
Rerun ==
    /\ ~Running
    /\ run < MaxRuns
    /\ run' = run + 1
    /\ cfg' \in Flags
    /\ Become(NewRun(dirs, files))
    /\ dirs0' = dirs
    /\ files0' = files
    /\ UNCHANGED twin

\* shutil.rmtree(project_name) between two invocations, then the command
\* is invoked again.
Cleanup ==
    /\ ~Running
    /\ run < MaxRuns
    /\ exists([dirs |-> dirs, files |-> files], project_dir)
    /\ run' = run + 1
    /\ cfg' \in Flags
    /\ Become(NewRun({}, {}))
    /\ dirs0' = {}
    /\ files0' = {}
    /\ UNCHANGED twin

Next ==
    \/ CheckExists \/ MakeRoot \/ MakeSubdir \/ RenderAndWrite
    \/ PoetryInit \/ CiSetup \/ VenvCreate \/ PipUpgrade \/ PipInstall
    \/ GitInit \/ GitAdd \/ GitCommit \/ Finish
    \/ Rerun \/ Cleanup

Spec == Init /\ [][Next]_vars

\* Two runs of cli side by side from the same disk, with the same options
\* except ci, and with the same outcome given to both at every step.
TwinStep ==
    /\ Running \/ twin.exit_code = -1
    /\ \E o \in OutcomesAt(pc) \cup OutcomesAt(twin.pc) :
          /\ Become(cli(Cur, cfg, o))
          /\ twin' = cli(twin, [cfg EXCEPT !.ci = ~@], o)
    /\ UNCHANGED <<cfg, run, dirs0, files0>>

SpecTwin == Init /\ [][TwinStep]_vars

(***************************************************************************)
(* Vocabulary of the properties                                            *)
(***************************************************************************)
\* The destination did not exist when the current invocation started.
Fresh == ~exists([dirs |-> dirs0, files |-> files0], project_dir)

Exited == exit_code # -1

SuccessMessage == "successfully initialized"

Echoed(msg) == \E k \in 1..Len(output) : output[k] = msg

Succeeded == exit_code = 0 /\ Echoed(SuccessMessage)

NoFlags == ~cfg.venv /\ ~cfg.git /\ ~cfg.ci /\ ~cfg.interactive

Range(s) == {s[k] : k \in 1..Len(s)}

\* The files that come from templates, as the specification lists them.
TemplatedFiles ==
    { <<"README.md">>, <<".gitignore">>, <<"Makefile">>, <<"LICENSE">>,
      <<"requirements.txt">>, <<"src", "demo", "__init__.py">>,
      <<"tests", "test_demo.py">>, <<".github", "workflows", "ci.yml">>,
      <<".github", "dependabot.yml">> }

\* The fixed output list: the templated files and the pyproject manifest.
FixedOutputList == TemplatedFiles \cup {<<"pyproject.toml">>}

PlannedSubdirs == { <<"src", "demo">>, <<"tests">>, <<".github", "workflows">> }

IsPoetry(cmd) == cmd[1] = "poetry"

IsVenv(cmd) == cmd[1] \in {"python", "venv/bin/pip"}

IsGit(cmd) == cmd[1] = "git"

NonZero(r) == r \in {"nonzero", "nonzero_partial"}

(***************************************************************************)
(* C1                                                                      *)
(***************************************************************************)
\* C1: a run that starts with the destination already existing (in
\* particular a second run after a first one that created the root and then
\* succeeded or aborted anywhere) never gets past the existence check, ends
\* with the precondition failure (status 1 and the "already exists"
\* message), and changes nothing: no directory, no file, no subprocess.
C1_ExistingDestinationUntouched ==
    ~Fresh =>
        /\ pc = "check"
        /\ dirs = dirs0
        /\ files = files0
        /\ written = <<>>
        /\ invoked = <<>>
        /\ Exited => /\ exit_code = 1
                     /\ raised = "Exit"
                     /\ output = <<"Error: already exists">>

\* A second run has ended on a destination left behind by a first run that
\* aborted during materialization.
C1_Witness ==
    /\ run = 2
    /\ ~Fresh
    /\ Exited
    /\ <<"README.md">> \in files0
    /\ <<"LICENSE">> \notin files0

(***************************************************************************)
(* C2                                                                      *)
(***************************************************************************)
\* C2: for every combination of flags, when a run on a destination that
\* did not exist ends in success, every path of the fixed output list
\* exists under the root.
C2_SuccessHasAllOutputs ==
    (Fresh /\ Succeeded) => FixedOutputList \subseteq files

C2_Witness == Fresh /\ Succeeded /\ pc = "done" /\ cfg.venv /\ cfg.git

(***************************************************************************)
(* C3                                                                      *)
(***************************************************************************)
\* C3: with the git flag set, once materialization and the earlier steps
\* have succeeded, the run reports success whatever happens in the version
\* control step (tool cannot be started, or init/add/commit exits
\* non-zero), and all templated files still exist.
C3_GitNeverFatal ==
    (cfg.git /\ Exited /\ \E k \in 1..Len(invoked) : IsGit(invoked[k].cmd)) =>
        /\ exit_code = 0
        /\ Echoed(SuccessMessage)
        /\ TemplatedFiles \subseteq files

(***************************************************************************)
(* C4                                                                      *)
(***************************************************************************)
\* C4: a non-zero exit of poetry init or of any venv sub-step is fatal: it
\* is the last command invoked, the run has ended with a non-zero status,
\* the success message is not emitted, and the materialized files stay.
C4_PackageAndVenvFailuresFatal ==
    \A k \in 1..Len(invoked) :
        ((IsPoetry(invoked[k].cmd) \/ IsVenv(invoked[k].cmd)) /\ NonZero(invoked[k].result)) =>
            /\ k = Len(invoked)
            /\ exit_code = 1
            /\ ~Echoed(SuccessMessage)
            /\ TemplatedFiles \subseteq files
            /\ Range(written) \subseteq files

\* The dependency install, the last venv sub-step, has exited non-zero in a
\* run that was also asked for git.
C4_Witness ==
    /\ cfg.git
    /\ Len(invoked) = 4
    /\ invoked[4].cmd = pip_install_cmd
    /\ NonZero(invoked[4].result)

C6_VenvIffFlag ==
    /\ ~cfg.venv => /\ \A k \in 1..Len(invoked) : ~IsVenv(invoked[k].cmd)
                    /\ Fresh => venv_path \notin dirs
    /\ (cfg.venv /\ Fresh /\ Succeeded) => venv_path \in dirs

C6_Witness == cfg.venv /\ ~cfg.git /\ Fresh /\ Succeeded /\ venv_path \in dirs

(***************************************************************************)
(* C7                                                                      *)
(***************************************************************************)
\* The commands a run may invoke, in the order the specification fixes.
C7_Order(c) ==
    <<IF c.interactive THEN <<"poetry", "init">>
      ELSE <<"poetry", "init", "--no-interaction">>>>
    \o (IF c.venv THEN <<venv_cmd, pip_upgrade_cmd, pip_install_cmd>> ELSE <<>>)
    \o (IF c.git THEN <<git_init_cmd, git_add_cmd, git_commit_cmd>> ELSE <<>>)

\* C7: nothing is invoked before all nine template files are written; the
\* invocations are a prefix of poetry, venv, pip upgrade, pip install, git
\* init, git add, git commit (those the flags select), each at most once,
\* and a command is only invoked when every one before it has succeeded.
C7_FixedOrder ==
    /\ invoked # <<>> => /\ Len(written) = 9
                         /\ TemplatedFiles \subseteq Range(written)
    /\ Len(invoked) <= Len(C7_Order(cfg))
    /\ \A k \in 1..Len(invoked) :
          /\ invoked[k].cmd = C7_Order(cfg)[k]
          /\ k < Len(invoked) => invoked[k].result = "ok"

C7_Witness == Len(invoked) = 7 /\ Exited

(***************************************************************************)
(* C8                                                                      *)
(***************************************************************************)
\* C8: the files are written in the declared order, and a run that ends
\* inside the template loop ends with status 1 at the first failure: the
\* templates after the failing one are not written, nothing is invoked, no
\* success message, and the root, the sub-directories and the files written
\* before the failure are on disk.
C8_FailFastNoRollback ==
    /\ \A k \in 1..Len(written) : written[k] = templates[k].output_file
    /\ (Fresh /\ Exited /\ pc = "render") =>
          /\ exit_code = 1
          /\ Len(written) = i - 1
          /\ \A k \in (i + 1)..Len(templates) : templates[k].output_file \notin files
          /\ invoked = <<>>
          /\ ~Echoed(SuccessMessage)
          /\ project_dir \in dirs
          /\ PlannedSubdirs \subseteq dirs
          /\ Range(written) \subseteq files

\* The fifth template failed to render after four files were written.
C8_Witness ==
    Fresh /\ Exited /\ pc = "render" /\ i = 5 /\ raised = "TemplateError"

C10_ParentsBeforeFiles ==
    Fresh =>
        /\ \A f \in files : dirname(f) \in dirs
        /\ \A d \in dirs : dirname(d) \in dirs
        /\ (dirs # {} \/ files # {}) => project_dir \in dirs
        /\ (files # {} \/ written # <<>>) => PlannedSubdirs \subseteq dirs
        /\ raised \notin {"FileExistsError", "NotADirectoryError"}

C10_Witness == Fresh /\ Len(written) = 9 /\ pc = "poetry"

====
